---- MODULE Spec2Model ----
(***************************************************************************)
(* ElizaTown: one browser client (src/src/App.tsx) talking to the hosted   *)
(* store declared in src/supabase/migrations/20250121171648_bright_        *)
(* resonance.sql.  Every `await` of a handler is a point where other       *)
(* handlers run, so an async function in flight is a record in the bag     *)
(* `tasks`; a backend call is applied to the store and answered in the     *)
(* step that resumes the task.                                             *)
(***************************************************************************)
EXTENDS Integers, FiniteSets, Sequences, Bags, TLC

\* ---------------------------------------------------------------- bounds
MaxTasks == 3
MaxDownloads == 3
MaxClock == 1
MaxGestures == 5
MaxSql == 1

\* ------------------------------------------------------------ value sets
Null == "null"
Users == {"u1", "u2"}
CharIds == {"c1", "c2"}
SearchTexts == {<<>>, <<"n">>}
Name1 == <<"N", "o">>
Name2 == <<"a">>

VARIABLES
  \* hosted store
  profiles,          \* table profiles: the set of ids that have a row
  charactersTable,   \* table characters: id -> row
  likes,             \* table likes: set of [character_id, user_id]
  storageObjects,    \* objects of the two buckets: set of [bucket, path]
  sqlStatus,         \* the last statement run by the table owner and its outcome
  \* the client library
  authUid,           \* identity of the client's current auth session (auth.uid())
  \* App state
  session, profile, characters, searchQuery, showUploadModal,
  isFetchingProfile,
  \* UploadModal state
  modalSession, characterFile, imageFile, details, isUploading,
  \* environment of the page
  toasts,            \* notifications raised so far
  clock,             \* Date.now()
  tasks,             \* async functions in flight
  \* history: the likes at page load, the handleLike calls made since, and
  \* the number of user gestures and auth events so far
  likes0, likeCalls, gestures

storeVars == <<profiles, charactersTable, likes, storageObjects, sqlStatus>>
appVars == <<session, profile, characters, searchQuery, showUploadModal, isFetchingProfile>>
modalVars == <<modalSession, characterFile, imageFile, details, isUploading>>
vars == <<profiles, charactersTable, likes, storageObjects, sqlStatus, authUid,
          session, profile, characters, searchQuery, showUploadModal,
          isFetchingProfile, modalSession, characterFile, imageFile, details,
          isUploading, toasts, clock, tasks, likes0, likeCalls, gestures>>
histVars == <<likes0, likeCalls, gestures>>

\* A user gesture or auth event: counted, and bounded by MaxGestures.
Gesture == gestures < MaxGestures /\ gestures' = gestures + 1

\* ------------------------------------------------------- tasks in flight
NumTasks == BagCardinality(tasks)
Spawn(bag, t) == bag (+) SetToBag({t})
Finish(bag, t) == bag (-) SetToBag({t})
InFlight(k) == {t \in BagToSet(tasks) : t.kind = k}
At(k, pc) == {t \in InFlight(k) : t.pc = pc}

Toast(msg) == toasts' = toasts \cup {msg}

\* ------------------------------------------------------------ the store
\* likes(count) embedded in the characters select: one aggregate row.
LikesEmbed(id) ==
  <<[count |-> Cardinality({l \in likes : l.character_id = id})]>>

ToLower(ch) ==
  CASE ch = "N" -> "n"
    [] ch = "O" -> "o"
    [] ch = "A" -> "a"
    [] OTHER -> ch

\* SQL LIKE with ILIKE's case folding: % is any run, _ any one character.
RECURSIVE ILike(_, _)
ILike(s, p) ==
  IF p = <<>> THEN s = <<>>
  ELSE IF Head(p) = "%" THEN ILike(s, Tail(p)) \/ (s # <<>> /\ ILike(Tail(s), p))
  ELSE IF s = <<>> THEN FALSE
  ELSE IF Head(p) = "_" THEN ILike(Tail(s), Tail(p))
  ELSE ToLower(Head(s)) = ToLower(Head(p)) /\ ILike(Tail(s), Tail(p))

\* The rows the catalog query selects for search text q.
MatchingIds(q) ==
  {id \in DOMAIN charactersTable :
     q = <<>> \/ ILike(charactersTable[id].name, <<"%">> \o q \o <<"%">>)}

\* order('created_at', {ascending: false})
RECURSIVE OrderDesc(_)
OrderDesc(ids) ==
  IF ids = {} THEN <<>>
  ELSE LET top == CHOOSE i \in ids :
                    \A j \in ids : charactersTable[j].created_at <= charactersTable[i].created_at
       IN <<top>> \o OrderDesc(ids \ {top})

SelectRow(id) ==
  [id |-> id,
   name |-> charactersTable[id].name,
   file_url |-> charactersTable[id].file_url,
   image_url |-> charactersTable[id].image_url,
   author_id |-> charactersTable[id].author_id,
   download_count |-> charactersTable[id].download_count,
   created_at |-> charactersTable[id].created_at,
   likes |-> LikesEmbed(id)]

SelectCharacters(q) ==
  LET ids == OrderDesc(MatchingIds(q))
  IN [i \in 1..Len(ids) |-> SelectRow(ids[i])]

\* Mutant: the viewer-likes query without its user_id filter.
SelectAllLikes(u) == {l.character_id : l \in likes}

\* select character_id from likes where user_id = u
SelectUserLikes(u) == {l.character_id : l \in {x \in likes : x.user_id = u}}

\* ------------------------------------------------------- fetchCharacters
FetchTask(q, s) ==
  [kind |-> "fetchCharacters", pc |-> "query", searchQuery |-> q, session |-> s,
   charactersData |-> <<>>]

\* Mutant: the number of embedded rows instead of the count they carry.
LikesCountAsLength(row) == Len(row.likes)

\* char.likes?.[0]?.count || 0
LikesCount(row) == IF Len(row.likes) >= 1 THEN row.likes[1].count ELSE 0

Processed(data, userLikes) ==
  [i \in 1..Len(data) |->
     [id |-> data[i].id,
      name |-> data[i].name,
      file_url |-> data[i].file_url,
      image_url |-> data[i].image_url,
      author_id |-> data[i].author_id,
      download_count |-> data[i].download_count,
      created_at |-> data[i].created_at,
      likes_count |-> LikesCount(data[i]),
      is_liked |-> data[i].id \in userLikes]]

\* Mutant: a failed catalog query empties the displayed list.
FetchQueryErrorClears(t) ==
  /\ t \in At("fetchCharacters", "query")
  /\ Toast("Failed to load characters")
  /\ characters' = <<>>
  /\ tasks' = Finish(tasks, t)
  /\ UNCHANGED <<storeVars, authUid, session, profile, searchQuery, showUploadModal,
                 isFetchingProfile, modalVars, clock, histVars>>

FetchQueryError(t) ==
  /\ t \in At("fetchCharacters", "query")
  /\ Toast("Failed to load characters")
  /\ tasks' = Finish(tasks, t)
  /\ UNCHANGED <<storeVars, authUid, appVars, modalVars, clock, histVars>>

FetchQueryOk(t) ==
  /\ t \in At("fetchCharacters", "query")
  /\ IF t.session # Null
       THEN /\ tasks' = Spawn(Finish(tasks, t),
                              [t EXCEPT !.pc = "likes",
                                        !.charactersData = SelectCharacters(t.searchQuery)])
            /\ UNCHANGED characters
       ELSE /\ characters' = Processed(SelectCharacters(t.searchQuery), {})
            /\ tasks' = Finish(tasks, t)
  /\ UNCHANGED <<storeVars, authUid, session, profile, searchQuery, showUploadModal,
                 isFetchingProfile, modalVars, toasts, clock, histVars>>

\* The viewer-likes query; its error is ignored (likesData || []).
FetchLikesDone(t, ok) ==
  /\ t \in At("fetchCharacters", "likes")
  /\ characters' = Processed(t.charactersData,
                             IF ok THEN SelectUserLikes(t.session) ELSE {})
  /\ tasks' = Finish(tasks, t)
  /\ UNCHANGED <<storeVars, authUid, session, profile, searchQuery, showUploadModal,
                 isFetchingProfile, modalVars, toasts, clock, histVars>>

\* ----------------------------------------------------------- fetchProfile
ProfileTask(u) == [kind |-> "fetchProfile", pc |-> "select", user |-> u]

\* Mutant: fetchProfile without its re-entrancy check.
StartsProfileUnguarded(u) == u # Null

\* fetchProfile(u) up to its first await: the tasks it adds and the flag.
StartsProfile(u) == u # Null /\ ~isFetchingProfile

\* The effect on [searchQuery, session]: a session object is a new value on
\* every callback, null stays null.
SessionEffect(s) == ~(s = Null /\ session = Null)

WithProfile(bag, u) == IF StartsProfile(u) THEN Spawn(bag, ProfileTask(u)) ELSE bag
WithFetch(bag, s) == IF SessionEffect(s) THEN Spawn(bag, FetchTask(searchQuery, s)) ELSE bag

\* supabase.auth.getSession().then(...) of App
GetSessionResolve(t) ==
  /\ t \in At("getSession", "app")
  /\ session' = authUid
  /\ isFetchingProfile' = (isFetchingProfile \/ StartsProfile(authUid))
  /\ tasks' = WithFetch(WithProfile(Finish(tasks, t), authUid), authUid)
  /\ UNCHANGED <<storeVars, authUid, profile, characters, searchQuery,
                 showUploadModal, modalVars, toasts, clock, histVars>>

\* The auth session of the client changes to s (sign-in completed, sign-out,
\* another tab, token refresh) and the onAuthStateChange callback runs.
OnAuthStateChange(s) ==
  /\ Gesture
  /\ NumTasks + 2 <= MaxTasks
  /\ authUid' = s
  /\ session' = s
  /\ profile' = IF s = Null THEN Null ELSE profile
  /\ isFetchingProfile' = (isFetchingProfile \/ StartsProfile(s))
  /\ tasks' = WithFetch(WithProfile(tasks, s), s)
  /\ UNCHANGED <<storeVars, characters, searchQuery, showUploadModal, modalVars,
                 toasts, clock, likes0, likeCalls>>

ProfileSelectFound(t) ==
  /\ t \in At("fetchProfile", "select")
  /\ t.user \in profiles
  /\ profile' = t.user
  /\ isFetchingProfile' = FALSE
  /\ tasks' = Finish(tasks, t)
  /\ UNCHANGED <<storeVars, authUid, session, characters, searchQuery,
                 showUploadModal, modalVars, toasts, clock, histVars>>

\* .single() on no row: PGRST116, then the upsert is sent.
ProfileSelectAbsent(t) ==
  /\ t \in At("fetchProfile", "select")
  /\ t.user \notin profiles
  /\ tasks' = Spawn(Finish(tasks, t), [t EXCEPT !.pc = "upsert"])
  /\ UNCHANGED <<storeVars, authUid, appVars, modalVars, toasts, clock, histVars>>

ProfileSelectError(t) ==
  /\ t \in At("fetchProfile", "select")
  /\ Toast("Error fetching profile")
  /\ isFetchingProfile' = FALSE
  /\ tasks' = Finish(tasks, t)
  /\ UNCHANGED <<storeVars, authUid, session, profile, characters, searchQuery,
                 showUploadModal, modalVars, clock, histVars>>

\* Row level security of profiles: SELECT and UPDATE policies only.  An
\* upsert of an absent row takes the INSERT path, which no policy permits;
\* of a present row the UPDATE path, permitted to the row's own identity.
UpsertPermitted(uid, id) == id \in profiles /\ uid = id

ProfileUpsertOk(t) ==
  /\ t \in At("fetchProfile", "upsert")
  /\ UpsertPermitted(authUid, t.user)
  /\ profile' = t.user
  /\ Toast("Profile created successfully!")
  /\ isFetchingProfile' = FALSE
  /\ tasks' = Finish(tasks, t)
  /\ UNCHANGED <<storeVars, authUid, session, characters, searchQuery,
                 showUploadModal, modalVars, clock, histVars>>

ProfileUpsertError(t) ==
  /\ t \in At("fetchProfile", "upsert")
  /\ Toast("Failed to create profile")
  /\ isFetchingProfile' = FALSE
  /\ tasks' = Finish(tasks, t)
  /\ UNCHANGED <<storeVars, authUid, session, profile, characters, searchQuery,
                 showUploadModal, modalVars, clock, histVars>>

\* catch (err): either await throws.
ProfileThrows(t) ==
  /\ t \in InFlight("fetchProfile")
  /\ Toast("An unexpected error occurred")
  /\ isFetchingProfile' = FALSE
  /\ tasks' = Finish(tasks, t)
  /\ UNCHANGED <<storeVars, authUid, session, profile, characters, searchQuery,
                 showUploadModal, modalVars, clock, histVars>>

\* ------------------------------------------------------------ searchQuery
\* Mutant: a change of the search text aborts the fetches in flight.
SetSearchQueryCancels(q) ==
  /\ Gesture
  /\ NumTasks < MaxTasks
  /\ q # searchQuery
  /\ searchQuery' = q
  /\ tasks' = Spawn([t \in {x \in BagToSet(tasks) : x.kind # "fetchCharacters"} |-> tasks[t]],
                    FetchTask(q, session))
  /\ UNCHANGED <<storeVars, authUid, session, profile, characters, showUploadModal,
                 isFetchingProfile, modalVars, toasts, clock, likes0, likeCalls>>

\* onChange of the search box, and the effect on [searchQuery, session].
SetSearchQuery(q) ==
  /\ Gesture
  /\ NumTasks < MaxTasks
  /\ q # searchQuery
  /\ searchQuery' = q
  /\ tasks' = Spawn(tasks, FetchTask(q, session))
  /\ UNCHANGED <<storeVars, authUid, session, profile, characters, showUploadModal,
                 isFetchingProfile, modalVars, toasts, clock, likes0, likeCalls>>

\* ---------------------------------------------------------------- handleLike
LikeRow(c, u) == [character_id |-> c, user_id |-> u]

LikeTask(row) ==
  [kind |-> "handleLike", pc |-> IF row.is_liked THEN "delete" ELSE "insert",
   characterId |-> row.id, user |-> session, searchQuery |-> searchQuery,
   session |-> session]

\* Mutant: the session check is missing.
LikeNeverBlocked == FALSE

\* if (!session): the handler's guard.
LikeBlocked == session = Null

\* The click on the heart of the i-th displayed entry, up to the first await.
HandleLike(i) ==
  /\ Gesture
  /\ i \in 1..Len(characters)
  /\ likeCalls' = Append(likeCalls, LikeRow(characters[i].id, session))
  /\ IF LikeBlocked
       THEN /\ Toast("Please sign in to like characters")
            /\ UNCHANGED tasks
       ELSE /\ NumTasks < MaxTasks
            /\ tasks' = Spawn(tasks, LikeTask(characters[i]))
            /\ UNCHANGED toasts
  /\ UNCHANGED <<storeVars, authUid, appVars, modalVars, clock, likes0>>

\* Policy "Users can delete own likes": USING (auth.uid() = user_id); a
\* delete that matches no row is no error.
DeletedLikes(uid, c, u) ==
  {l \in likes : l.character_id = c /\ l.user_id = u /\ uid = l.user_id}

LikeDeleteOk(t) ==
  /\ t \in At("handleLike", "delete")
  /\ likes' = likes \ DeletedLikes(authUid, t.characterId, t.user)
  /\ tasks' = Spawn(Finish(tasks, t), FetchTask(t.searchQuery, t.session))
  /\ UNCHANGED <<profiles, charactersTable, storageObjects, sqlStatus, authUid,
                 appVars, modalVars, toasts, clock, histVars>>

LikeDeleteError(t) ==
  /\ t \in At("handleLike", "delete")
  /\ Toast("Failed to unlike character")
  /\ tasks' = Finish(tasks, t)
  /\ UNCHANGED <<storeVars, authUid, appVars, modalVars, clock, histVars>>

\* Policy "Users can insert own likes", the primary key (character_id,
\* user_id) and the two foreign keys.
InsertLikePermitted(uid, c, u) ==
  /\ uid = u
  /\ LikeRow(c, u) \notin likes
  /\ c \in DOMAIN charactersTable
  /\ u \in profiles

LikeInsertOk(t) ==
  /\ t \in At("handleLike", "insert")
  /\ InsertLikePermitted(authUid, t.characterId, t.user)
  /\ likes' = likes \cup {LikeRow(t.characterId, t.user)}
  /\ tasks' = Spawn(Finish(tasks, t), FetchTask(t.searchQuery, t.session))
  /\ UNCHANGED <<profiles, charactersTable, storageObjects, sqlStatus, authUid,
                 appVars, modalVars, toasts, clock, histVars>>

LikeInsertError(t) ==
  /\ t \in At("handleLike", "insert")
  /\ Toast("Failed to like character")
  /\ tasks' = Finish(tasks, t)
  /\ UNCHANGED <<storeVars, authUid, appVars, modalVars, clock, histVars>>

\* ------------------------------------------------------------ handleDownload
DownloadTask(row) ==
  [kind |-> "handleDownload", pc |-> "update", id |-> row.id,
   download_count |-> row.download_count + 1,
   searchQuery |-> searchQuery, session |-> session]

\* window.open(file_url) and the update request, up to the await.
HandleDownload(i) ==
  /\ Gesture
  /\ i \in 1..Len(characters)
  /\ NumTasks < MaxTasks
  /\ characters[i].download_count < MaxDownloads
  /\ tasks' = Spawn(tasks, DownloadTask(characters[i]))
  /\ UNCHANGED <<storeVars, authUid, appVars, modalVars, toasts, clock, likes0, likeCalls>>

\* Policy "Users can update own characters": USING (auth.uid() = author_id).
\* A row the policy hides is not updated, and that is no error.
UpdatePermitted(uid, id) ==
  id \in DOMAIN charactersTable /\ uid = charactersTable[id].author_id

\* Mutant: the store increments the counter itself.
UpdatedTableAtomic(uid, id, n) ==
  IF UpdatePermitted(uid, id)
    THEN [charactersTable EXCEPT ![id].download_count = @ + 1]
    ELSE charactersTable

\* update({download_count: n}).eq('id', id): the value the client computed.
UpdatedTable(uid, id, n) ==
  IF UpdatePermitted(uid, id)
    THEN [charactersTable EXCEPT ![id].download_count = n]
    ELSE charactersTable

DownloadUpdateOk(t) ==
  /\ t \in At("handleDownload", "update")
  /\ charactersTable' = UpdatedTable(authUid, t.id, t.download_count)
  /\ tasks' = Spawn(Finish(tasks, t), FetchTask(t.searchQuery, t.session))
  /\ UNCHANGED <<profiles, likes, storageObjects, sqlStatus, authUid,
                 appVars, modalVars, toasts, clock, histVars>>

\* console.error only.
DownloadUpdateError(t) ==
  /\ t \in At("handleDownload", "update")
  /\ tasks' = Finish(tasks, t)
  /\ UNCHANGED <<storeVars, authUid, appVars, modalVars, toasts, clock, histVars>>

\* ------------------------------------------- statements of the table owner
\* characters.author_id REFERENCES profiles(id) with no ON DELETE action;
\* likes.user_id REFERENCES profiles(id) ON DELETE CASCADE.
Authored(u) == {id \in DOMAIN charactersTable : charactersTable[id].author_id = u}

\* Mutant: the foreign key of characters.author_id is not checked.
DeleteProfileUnchecked(u) == IF u \notin profiles THEN "DELETE 0" ELSE "DELETE 1"

DeleteProfileResult(u) ==
  IF u \notin profiles THEN "DELETE 0"
  ELSE IF Authored(u) # {} THEN "ERROR 23503"
  ELSE "DELETE 1"

SqlDeleteProfile(u) ==
  /\ sqlStatus.n < MaxSql
  /\ sqlStatus' = [n |-> sqlStatus.n + 1, stmt |-> "delete profile", id |-> u,
                   result |-> DeleteProfileResult(u)]
  /\ IF DeleteProfileResult(u) = "DELETE 1"
       THEN /\ profiles' = profiles \ {u}
            /\ likes' = {l \in likes : l.user_id # u}
       ELSE UNCHANGED <<profiles, likes>>
  /\ UNCHANGED <<charactersTable, storageObjects, authUid, appVars, modalVars,
                 toasts, clock, tasks, histVars>>

SqlInsertProfile(u) ==
  /\ sqlStatus.n < MaxSql
  /\ u \notin profiles
  /\ sqlStatus' = [n |-> sqlStatus.n + 1, stmt |-> "insert profile", id |-> u,
                   result |-> "INSERT 0 1"]
  /\ profiles' = profiles \cup {u}
  /\ UNCHANGED <<charactersTable, likes, storageObjects, authUid, appVars, modalVars,
                 toasts, clock, tasks, histVars>>

\* -------------------------------------------------------------- UploadModal
NoFile == [ext |-> "", json |-> "none", name |-> <<>>]
NoDetails == [name |-> <<>>, description |-> <<>>]

\* Definition files a user can drop, by what JSON.parse makes of the text:
\* a syntax error, the value null, an object without a name, an object with one.
CharacterFiles ==
  {[ext |-> "json", json |-> "invalid", name |-> <<>>],
   [ext |-> "json", json |-> "null", name |-> <<>>],
   [ext |-> "json", json |-> "noname", name |-> <<>>],
   [ext |-> "json", json |-> "named", name |-> Name1]}
ImageFiles == {[ext |-> "png", json |-> "none", name |-> <<>>]}

\* getPublicUrl(path) of a bucket, and `${session.user.id}/${Date.now()}.${ext}`
Url(bucket, path) == [bucket |-> bucket, path |-> path]
Path(u, ms, ext) == <<u, ms, ext>>

ModalKinds == {"modalGetSession", "onDrop", "handleUpload"}

\* The modal unmounts: what its functions in flight later set on it is lost.
Detached(t) == IF t.kind \in ModalKinds THEN [t EXCEPT !.detached = TRUE] ELSE t

RECURSIVE Copies(_, _)
Copies(bag, ts) ==
  IF ts = {} THEN 0
  ELSE LET t == CHOOSE x \in ts : TRUE IN bag[t] + Copies(bag, ts \ {t})

Unmount(bag) ==
  [x \in {Detached(t) : t \in BagToSet(bag)} |->
     Copies(bag, {t \in BagToSet(bag) : Detached(t) = x})]

\* onClose of App: setShowUploadModal(false); fetchCharacters()
OnClose(bag, q, s) == Spawn(Unmount(bag), FetchTask(q, s))

\* The Upload Character button of the header (shown while a session is held):
\* the modal mounts with fresh state and asks for the session.
OpenUploadModal ==
  /\ Gesture
  /\ session # Null
  /\ ~showUploadModal
  /\ NumTasks < MaxTasks
  /\ showUploadModal' = TRUE
  /\ modalSession' = Null
  /\ characterFile' = NoFile
  /\ imageFile' = NoFile
  /\ details' = NoDetails
  /\ isUploading' = FALSE
  /\ tasks' = Spawn(tasks, [kind |-> "modalGetSession", pc |-> "modal", detached |-> FALSE])
  /\ UNCHANGED <<storeVars, authUid, session, profile, characters, searchQuery,
                 isFetchingProfile, toasts, clock, likes0, likeCalls>>

ModalGetSessionResolve(t) ==
  /\ t \in At("modalGetSession", "modal")
  /\ modalSession' = IF t.detached THEN modalSession ELSE authUid
  /\ tasks' = Finish(tasks, t)
  /\ UNCHANGED <<storeVars, authUid, appVars, characterFile, imageFile, details,
                 isUploading, toasts, clock, histVars>>

\* Cancel
CancelUpload ==
  /\ Gesture
  /\ showUploadModal
  /\ NumTasks < MaxTasks
  /\ showUploadModal' = FALSE
  /\ tasks' = OnClose(tasks, searchQuery, session)
  /\ UNCHANGED <<storeVars, authUid, session, profile, characters, searchQuery,
                 isFetchingProfile, modalVars, toasts, clock, likes0, likeCalls>>

\* onDrop of the definition file, up to await file.text()
DropCharacterFile(f) ==
  /\ Gesture
  /\ showUploadModal
  /\ NumTasks < MaxTasks
  /\ tasks' = Spawn(tasks, [kind |-> "onDrop", pc |-> "text", file |-> f,
                            detached |-> FALSE])
  /\ UNCHANGED <<storeVars, authUid, appVars, modalVars, toasts, clock, likes0, likeCalls>>

\* JSON.parse(content) throws on a syntax error, json.name throws on null.
ParseFails(f) == f.json \in {"invalid", "null"}

\* json.name || ''
ParsedName(f) == IF f.json = "named" THEN f.name ELSE <<>>

OnDropResolve(t) ==
  /\ t \in At("onDrop", "text")
  /\ tasks' = Finish(tasks, t)
  /\ IF ParseFails(t.file)
       THEN /\ Toast("Invalid JSON file")
            /\ UNCHANGED <<details, characterFile>>
       ELSE /\ details' = IF t.detached THEN details
                          ELSE [details EXCEPT !.name = ParsedName(t.file)]
            /\ characterFile' = IF t.detached THEN characterFile ELSE t.file
            /\ UNCHANGED toasts
  /\ UNCHANGED <<storeVars, authUid, appVars, modalSession, imageFile, isUploading,
                 clock, histVars>>

DropImageFile(f) ==
  /\ Gesture
  /\ showUploadModal
  /\ imageFile' = f
  /\ UNCHANGED <<storeVars, authUid, appVars, modalSession, characterFile, details,
                 isUploading, toasts, clock, tasks, likes0, likeCalls>>

\* onChange of the name input
EditName(n) ==
  /\ Gesture
  /\ showUploadModal
  /\ details' = [details EXCEPT !.name = n]
  /\ UNCHANGED <<storeVars, authUid, appVars, modalSession, characterFile, imageFile,
                 isUploading, toasts, clock, tasks, likes0, likeCalls>>

\* disabled={isUploading || !characterFile || !imageFile}
UploadDisabled == isUploading \/ characterFile = NoFile \/ imageFile = NoFile

UploadTask ==
  [kind |-> "handleUpload", pc |-> "image", detached |-> FALSE,
   session |-> modalSession, characterFile |-> characterFile,
   imageFile |-> imageFile, details |-> details,
   imagePath |-> Path(modalSession, clock, imageFile.ext), filePath |-> <<>>,
   searchQuery |-> searchQuery, appSession |-> session]

\* The click on Upload, up to the first await.
HandleUpload ==
  /\ Gesture
  /\ showUploadModal
  /\ ~UploadDisabled
  /\ IF characterFile = NoFile \/ imageFile = NoFile \/ modalSession = Null
       THEN /\ Toast("Please provide all required files")
            /\ UNCHANGED <<isUploading, tasks>>
       ELSE /\ NumTasks < MaxTasks
            /\ isUploading' = TRUE
            /\ tasks' = Spawn(tasks, UploadTask)
            /\ UNCHANGED toasts
  /\ UNCHANGED <<storeVars, authUid, appVars, modalSession, characterFile, imageFile,
                 details, clock, likes0, likeCalls>>

\* Mutant: the catch block deletes the objects the run has stored.
UploadFailsRollsBack(t) ==
  /\ Toast("Failed to upload character")
  /\ isUploading' = IF t.detached THEN isUploading ELSE FALSE
  /\ tasks' = Finish(tasks, t)
  /\ storageObjects' = storageObjects \ {Url("character-images", t.imagePath),
                                          Url("character-files", t.filePath)}
  /\ UNCHANGED <<profiles, charactersTable, likes, sqlStatus, authUid, appVars,
                 modalSession, characterFile, imageFile, details, clock, histVars>>

\* catch: toast.error; finally: setIsUploading(false)
UploadFails(t) ==
  /\ Toast("Failed to upload character")
  /\ isUploading' = IF t.detached THEN isUploading ELSE FALSE
  /\ tasks' = Finish(tasks, t)
  /\ UNCHANGED <<storeVars, authUid, appVars, modalSession, characterFile, imageFile,
                 details, clock, histVars>>

\* storage.upload without upsert: a path that holds an object is an error.
UploadImageOk(t) ==
  /\ t \in At("handleUpload", "image")
  /\ Url("character-images", t.imagePath) \notin storageObjects
  /\ storageObjects' = storageObjects \cup {Url("character-images", t.imagePath)}
  /\ tasks' = Spawn(Finish(tasks, t),
                    [t EXCEPT !.pc = "file",
                              !.filePath = Path(t.session, clock, t.characterFile.ext)])
  /\ UNCHANGED <<profiles, charactersTable, likes, sqlStatus, authUid, appVars,
                 modalVars, toasts, clock, histVars>>

UploadImageError(t) ==
  /\ t \in At("handleUpload", "image")
  /\ UploadFails(t)

UploadFileOk(t) ==
  /\ t \in At("handleUpload", "file")
  /\ Url("character-files", t.filePath) \notin storageObjects
  /\ storageObjects' = storageObjects \cup {Url("character-files", t.filePath)}
  /\ tasks' = Spawn(Finish(tasks, t), [t EXCEPT !.pc = "insert"])
  /\ UNCHANGED <<profiles, charactersTable, likes, sqlStatus, authUid, appVars,
                 modalVars, toasts, clock, histVars>>

UploadFileError(t) ==
  /\ t \in At("handleUpload", "file")
  /\ UploadFails(t)

\* Policy "Users can insert own characters" and author_id REFERENCES profiles(id).
InsertCharacterPermitted(uid, author) == uid = author /\ author \in profiles

\* Mutant: the two public URLs change places.
InsertedRowSwapped(t) ==
  [name |-> t.details.name,
   file_url |-> Url("character-images", t.imagePath),
   image_url |-> Url("character-files", t.filePath),
   author_id |-> t.session,
   download_count |-> 0,
   created_at |-> clock]

\* The row of the insert; id, download_count and created_at are the defaults.
InsertedRow(t) ==
  [name |-> t.details.name,
   file_url |-> Url("character-files", t.filePath),
   image_url |-> Url("character-images", t.imagePath),
   author_id |-> t.session,
   download_count |-> 0,
   created_at |-> clock]

UploadInsertOk(t) ==
  /\ t \in At("handleUpload", "insert")
  /\ InsertCharacterPermitted(authUid, t.session)
  /\ \E id \in CharIds \ DOMAIN charactersTable :
       charactersTable' =
         [x \in DOMAIN charactersTable \cup {id} |->
            IF x = id THEN InsertedRow(t) ELSE charactersTable[x]]
  /\ Toast("Character uploaded successfully!")
  /\ showUploadModal' = FALSE
  /\ tasks' = OnClose(Finish(tasks, t), t.searchQuery, t.appSession)
  /\ UNCHANGED <<profiles, likes, storageObjects, sqlStatus, authUid, session, profile,
                 characters, searchQuery, isFetchingProfile, modalVars, clock, histVars>>

UploadInsertError(t) ==
  /\ t \in At("handleUpload", "insert")
  /\ UploadFails(t)

\* Date.now() advances.
Tick ==
  /\ clock < MaxClock
  /\ clock' = clock + 1
  /\ UNCHANGED <<storeVars, authUid, appVars, modalVars, toasts, tasks, histVars>>

\* ------------------------------------------------------------- the page

InitPage ==
  /\ authUid \in Users \cup {Null}
  /\ session = Null
  /\ profile = Null
  /\ characters = <<>>
  /\ searchQuery = <<>>
  /\ showUploadModal = FALSE
  /\ isFetchingProfile = FALSE
  /\ modalSession = Null
  /\ characterFile = NoFile
  /\ imageFile = NoFile
  /\ details = NoDetails
  /\ isUploading = FALSE
  /\ toasts = {}
  /\ clock = 0
  /\ tasks = SetToBag({[kind |-> "getSession", pc |-> "app"], FetchTask(<<>>, Null)})
  /\ likes0 = likes
  /\ likeCalls = <<>>
  /\ gestures = 0

NoStatement == [n |-> 0, stmt |-> "none", id |-> Null, result |-> "none"]

InitStoreEmpty ==
  /\ profiles \in SUBSET Users
  /\ charactersTable = <<>>
  /\ likes = {}
  /\ storageObjects = {}
  /\ sqlStatus = NoStatement

FetchNext ==
  \/ \E t \in BagToSet(tasks) : FetchQueryError(t)
  \/ \E t \in BagToSet(tasks) : FetchQueryOk(t)
  \/ \E t \in BagToSet(tasks), ok \in BOOLEAN : FetchLikesDone(t, ok)

AuthNext ==
  \/ \E t \in BagToSet(tasks) : GetSessionResolve(t)
  \/ \E s \in Users \cup {Null} : OnAuthStateChange(s)
  \/ \E t \in BagToSet(tasks) : ProfileSelectFound(t)
  \/ \E t \in BagToSet(tasks) : ProfileSelectAbsent(t)
  \/ \E t \in BagToSet(tasks) : ProfileSelectError(t)
  \/ \E t \in BagToSet(tasks) : ProfileUpsertOk(t)
  \/ \E t \in BagToSet(tasks) : ProfileUpsertError(t)
  \/ \E t \in BagToSet(tasks) : ProfileThrows(t)



\* A store holding one entry, authored by u1, and any likes on it.
InitStoreCatalog ==
  /\ profiles = Users
  /\ charactersTable =
       [id \in {"c1"} |->
          [name |-> Name1,
           file_url |-> Url("character-files", Path("u1", 0, "json")),
           image_url |-> Url("character-images", Path("u1", 0, "png")),
           author_id |-> "u1", download_count |-> 0, created_at |-> 0]]
  /\ likes \in SUBSET {LikeRow("c1", u) : u \in Users}
  /\ storageObjects = {Url("character-files", Path("u1", 0, "json")),
                       Url("character-images", Path("u1", 0, "png"))}
  /\ sqlStatus = NoStatement

\* The page once its first getSession, fetchProfile and fetchCharacters have
\* all been answered: signed in as any identity or as none.  An identity
\* without a Profile row holds no profile: its upsert was refused.
InitLoaded ==
  /\ authUid \in Users \cup {Null}
  /\ session = authUid
  /\ profile = (IF authUid \in profiles THEN authUid ELSE Null)
  /\ characters = Processed(SelectCharacters(<<>>),
                            IF authUid = Null THEN {} ELSE SelectUserLikes(authUid))
  /\ searchQuery = <<>>
  /\ showUploadModal = FALSE
  /\ isFetchingProfile = FALSE
  /\ modalSession = Null
  /\ characterFile = NoFile
  /\ imageFile = NoFile
  /\ details = NoDetails
  /\ isUploading = FALSE
  /\ toasts = (IF authUid \in Users \ profiles THEN {"Failed to create profile"} ELSE {})
  /\ clock = 0
  /\ tasks = EmptyBag
  /\ likes0 = likes
  /\ likeCalls = <<>>
  /\ gestures = 0

\* Likes: the like toggle, the catalog fetch and the owner's profile delete.
InitLikes == InitStoreCatalog /\ InitLoaded
NextLikes ==
  \/ \E i \in 1..Len(characters) : HandleLike(i)
  \/ \E t \in BagToSet(tasks) : LikeDeleteOk(t)
  \/ \E t \in BagToSet(tasks) : LikeDeleteError(t)
  \/ \E t \in BagToSet(tasks) : LikeInsertOk(t)
  \/ \E t \in BagToSet(tasks) : LikeInsertError(t)
  \/ \E u \in Users : SqlDeleteProfile(u)
  \/ FetchNext
SpecLikes == InitLikes /\ [][NextLikes]_vars

\* Downloads: the download button, the search box and the catalog fetch.
InitDownloads == InitStoreCatalog /\ InitLoaded
NextDownloads ==
  \/ \E q \in SearchTexts : SetSearchQuery(q)
  \/ \E i \in 1..Len(characters) : HandleDownload(i)
  \/ \E t \in BagToSet(tasks) : DownloadUpdateOk(t)
  \/ \E t \in BagToSet(tasks) : DownloadUpdateError(t)
  \/ FetchNext
SpecDownloads == InitDownloads /\ [][NextDownloads]_vars

\* Uploads: the modal, its two drop zones and the three steps of handleUpload.
\* The image bucket may hold an object stored in this same millisecond by
\* another page of u1.
InitStoreUpload ==
  /\ profiles = {"u1"}
  /\ charactersTable = <<>>
  /\ likes = {}
  /\ storageObjects \in SUBSET {Url("character-images", Path("u1", 0, "png"))}
  /\ sqlStatus = NoStatement

InitUpload == InitStoreUpload /\ InitLoaded
NextUpload ==
  \/ OpenUploadModal
  \/ \E t \in BagToSet(tasks) : ModalGetSessionResolve(t)
  \/ CancelUpload
  \/ \E f \in CharacterFiles : DropCharacterFile(f)
  \/ \E t \in BagToSet(tasks) : OnDropResolve(t)
  \/ \E f \in ImageFiles : DropImageFile(f)
  \/ EditName(Name2)
  \/ HandleUpload
  \/ \E t \in BagToSet(tasks) : UploadImageOk(t)
  \/ \E t \in BagToSet(tasks) : UploadImageError(t)
  \/ \E t \in BagToSet(tasks) : UploadFileOk(t)
  \/ \E t \in BagToSet(tasks) : UploadFileError(t)
  \/ \E t \in BagToSet(tasks) : UploadInsertOk(t)
  \/ \E t \in BagToSet(tasks) : UploadInsertError(t)
  \/ Tick
  \/ FetchNext
SpecUpload == InitUpload /\ [][NextUpload]_vars

InitAuth == InitStoreEmpty /\ InitPage
NextAuth == AuthNext \/ FetchNext \/ (\E u \in Users : SqlInsertProfile(u))
SpecAuth == InitAuth /\ [][NextAuth]_vars

\* Uploads across a change of session: the modal stays mounted while the auth
\* session changes (sign-out, another identity), and keeps the session it read
\* when it mounted.
NamedFiles == {f \in CharacterFiles : f.json = "named"}

InitUploadAuth == InitStoreUpload /\ InitLoaded
NextUploadAuth ==
  \/ OpenUploadModal
  \/ \E t \in BagToSet(tasks) : ModalGetSessionResolve(t)
  \/ \E f \in NamedFiles : DropCharacterFile(f)
  \/ \E t \in BagToSet(tasks) : OnDropResolve(t)
  \/ \E f \in ImageFiles : DropImageFile(f)
  \/ HandleUpload
  \/ \E t \in BagToSet(tasks) : UploadImageOk(t)
  \/ \E t \in BagToSet(tasks) : UploadImageError(t)
  \/ \E t \in BagToSet(tasks) : UploadFileOk(t)
  \/ \E t \in BagToSet(tasks) : UploadFileError(t)
  \/ \E t \in BagToSet(tasks) : UploadInsertOk(t)
  \/ \E t \in BagToSet(tasks) : UploadInsertError(t)
  \/ \E s \in Users \cup {Null} : OnAuthStateChange(s)
  \/ \E t \in BagToSet(tasks) : ProfileSelectFound(t)
  \/ \E t \in BagToSet(tasks) : ProfileSelectAbsent(t)
  \/ \E t \in BagToSet(tasks) : ProfileSelectError(t)
  \/ \E t \in BagToSet(tasks) : ProfileUpsertError(t)
  \/ \E t \in BagToSet(tasks) : ProfileThrows(t)
  \/ FetchNext
SpecUploadAuth == InitUploadAuth /\ [][NextUploadAuth]_vars

\* Search: the page from its mount, over a store of two entries ("No", then
\* the newer "a"), with the search box taking texts that include a LIKE
\* wildcard.  Every identity has its Profile row, so fetchProfile finds it.
TypedTexts == {<<>>, <<"n">>, <<"O">>, <<"_">>}

InitStoreSearch ==
  /\ profiles = Users
  /\ charactersTable =
       [id \in CharIds |->
          [name |-> IF id = "c1" THEN Name1 ELSE Name2,
           file_url |-> Url("character-files", Path("u1", 0, "json")),
           image_url |-> Url("character-images", Path("u1", 0, "png")),
           author_id |-> "u1", download_count |-> 0,
           created_at |-> IF id = "c1" THEN 0 ELSE 1]]
  /\ likes = {}
  /\ storageObjects = {Url("character-files", Path("u1", 0, "json")),
                       Url("character-images", Path("u1", 0, "png"))}
  /\ sqlStatus = NoStatement

InitSearch == InitStoreSearch /\ InitPage
NextSearch ==
  \/ \E t \in BagToSet(tasks) : GetSessionResolve(t)
  \/ \E t \in BagToSet(tasks) : ProfileSelectFound(t)
  \/ \E q \in TypedTexts : SetSearchQuery(q)
  \/ FetchNext
SpecSearch == InitSearch /\ [][NextSearch]_vars

\* Sessions over the catalog: the identity u1 signs in and out (or its token
\* is refreshed) while the catalog is displayed, liked and re-fetched; u2's
\* likes are those of another viewer.  u1 has its Profile row, so fetchProfile
\* finds it.
InitSession == InitStoreCatalog /\ InitLoaded /\ authUid # "u2"
NextSession ==
  \/ \E s \in {"u1", Null} : OnAuthStateChange(s)
  \/ \E t \in BagToSet(tasks) : ProfileSelectFound(t)
  \/ \E i \in 1..Len(characters) : HandleLike(i)
  \/ \E t \in BagToSet(tasks) : LikeDeleteOk(t)
  \/ \E t \in BagToSet(tasks) : LikeInsertOk(t)
  \/ \E t \in BagToSet(tasks) : LikeInsertError(t)
  \/ FetchNext
SpecSession == InitSession /\ [][NextSession]_vars

\* ===================================================================== claims
\* A task t is answered in this step.
Answered(t) == CopiesIn(t, tasks') < CopiesIn(t, tasks)
\* The answered handler went on to fetchCharacters(): its success path.
WentOnToFetch == BagCardinality(tasks') = BagCardinality(tasks)

LikesOf(c, L) == {l \in L : l.character_id = c}
StoreCount(c) == Cardinality(LikesOf(c, likes))

\* C1: a dropped definition file that parses as JSON but has no name field is
\* never staged as the character file, and no upload run ever carries it.
C1_NamelessFileRejected ==
  /\ characterFile.json \notin {"null", "noname"}
  /\ \A t \in InFlight("handleUpload") : t.characterFile.json \notin {"null", "noname"}

\* C2: once a profile has toggled like twice on an entry and everything in
\* flight has finished (here: in runs where no call failed and the owner ran no
\* statement), the entry has the Like relations, the like-count and the
\* is-liked state it had before the two toggles.
C2_ToggleTwiceRestores ==
  \A c \in CharIds, u \in Users :
    (/\ likeCalls = <<LikeRow(c, u), LikeRow(c, u)>>
     /\ tasks = EmptyBag
     /\ toasts = {}
     /\ sqlStatus = NoStatement)
    => /\ LikesOf(c, likes) = LikesOf(c, likes0)
       /\ \A i \in 1..Len(characters) :
            characters[i].id = c =>
              /\ characters[i].likes_count = Cardinality(LikesOf(c, likes0))
              /\ characters[i].is_liked = (LikeRow(c, u) \in likes0)

\* C3 as stated: in every state the displayed like-count of every displayed
\* entry equals the number of Like relations in the store that reference it.
C3_CountEqualsStore ==
  \A i \in 1..Len(characters) : characters[i].likes_count = StoreCount(characters[i].id)

\* C3 as amended: the like-count a catalog fetch displays for an entry is the
\* number of Like relations that referenced the entry when that fetch's
\* catalog query was answered: the rows a fetch holds after its query carry
\* the store's counts of that moment, and the list a fetch displays carries
\* the counts of the rows it holds.
C3_CountAsOfQuery ==
  [][/\ \A t \in BagToSet(tasks') :
          (t.kind = "fetchCharacters" /\ t.pc = "likes"
             /\ CopiesIn(t, tasks') > CopiesIn(t, tasks))
          => \A i \in 1..Len(t.charactersData) :
               t.charactersData[i].likes =
                 <<[count |-> StoreCount(t.charactersData[i].id)]>>
     /\ characters' # characters =>
          \/ \A i \in 1..Len(characters') :
               characters'[i].likes_count = StoreCount(characters'[i].id)
          \/ \E t \in At("fetchCharacters", "likes") :
               /\ Answered(t)
               /\ Len(characters') = Len(t.charactersData)
               /\ \A i \in 1..Len(characters') :
                    /\ characters'[i].id = t.charactersData[i].id
                    /\ characters'[i].likes_count = t.charactersData[i].likes[1].count
    ]_vars

\* A fetch has displayed a like-count that differs from the one at page load
\* and is the store's.
C3_Witness ==
  \E i \in 1..Len(characters) :
    /\ characters[i].likes_count = StoreCount(characters[i].id)
    /\ characters[i].likes_count # Cardinality(LikesOf(characters[i].id, likes0))

\* C4: every download whose update request is answered without error, issued
\* from a view showing the stored counter, raises the stored counter by one,
\* whoever the viewer is.
C4_EveryDownloadCounts ==
  [][\A t \in At("handleDownload", "update") :
       (/\ Answered(t)
        /\ WentOnToFetch
        /\ t.download_count = charactersTable[t.id].download_count + 1)
       => charactersTable'[t.id].download_count =
            charactersTable[t.id].download_count + 1
    ]_vars

\* C5: the stored download counter of every entry is never negative and no
\* step lowers it.
C5_CounterNeverLowered ==
  [][\A id \in DOMAIN charactersTable :
       /\ charactersTable[id].download_count >= 0
       /\ charactersTable'[id].download_count >= charactersTable[id].download_count
    ]_vars

\* C6: the step in which handleUpload reaches its success path adds exactly
\* one entry to the store, leaves the others as they were, and the new entry
\* holds the public URLs of the two objects this run uploaded and, as author,
\* the identity that is uploading.
C6_UploadAddsOneEntry ==
  [][\A t \in At("handleUpload", "insert") :
       (Answered(t) /\ WentOnToFetch)
       => \E id \in DOMAIN charactersTable' \ DOMAIN charactersTable :
            /\ DOMAIN charactersTable' = DOMAIN charactersTable \cup {id}
            /\ \A x \in DOMAIN charactersTable : charactersTable'[x] = charactersTable[x]
            /\ charactersTable'[id].file_url = Url("character-files", t.filePath)
            /\ charactersTable'[id].image_url = Url("character-images", t.imagePath)
            /\ charactersTable'[id].file_url \in storageObjects
            /\ charactersTable'[id].image_url \in storageObjects
            /\ charactersTable'[id].author_id = t.session
            /\ charactersTable'[id].author_id = authUid
            /\ "Character uploaded successfully!" \in toasts'
    ]_vars

\* An upload has succeeded: the store holds an entry with both its objects.
C6_Witness ==
  /\ "Character uploaded successfully!" \in toasts
  /\ \E id \in DOMAIN charactersTable :
       /\ charactersTable[id].file_url \in storageObjects
       /\ charactersTable[id].image_url \in storageObjects
       /\ charactersTable[id].file_url.bucket = "character-files"

BackendFailures ==
  {"Error fetching profile", "Failed to create profile", "An unexpected error occurred",
   "Failed to load characters"}

\* C7: once nothing is in flight and no backend call has failed (and the owner
\* ran no statement), a session authenticated as u means that a Profile row
\* keyed by u exists and that the held profile is the profile of u.
C7_ProfileMirrorsSession ==
  (/\ tasks = EmptyBag
   /\ toasts \cap BackendFailures = {}
   /\ sqlStatus = NoStatement
   /\ session # Null)
  => session \in profiles /\ profile = session

\* C8: once nothing is in flight (here: in runs where no backend call failed),
\* no session means no held profile.
C8_SignedOutHoldsNoProfile ==
  (tasks = EmptyBag /\ toasts \cap BackendFailures = {} /\ session = Null)
  => profile = Null

\* A statement of the owner deleting the profile u, which had a row, ran.
DeletesProfile(u) ==
  /\ u \in profiles
  /\ sqlStatus' # sqlStatus
  /\ sqlStatus'.stmt = "delete profile"
  /\ sqlStatus'.id = u

\* C9 as stated: deleting a Profile succeeds, removes every Like of that
\* profile and leaves every Character Entry unchanged.
C9_DeleteAlwaysSucceeds ==
  [][\A u \in Users :
       DeletesProfile(u)
       => /\ u \notin profiles'
          /\ likes' = {l \in likes : l.user_id # u}
          /\ charactersTable' = charactersTable
    ]_vars

\* C9 as amended: deleting a Profile that authored no Character Entry succeeds
\* and removes exactly the Likes of that profile; deleting a Profile that
\* authored an entry is rejected (foreign key of characters.author_id) and
\* removes neither the profile nor any Like; either way every Character Entry
\* is unchanged.
C9_DeleteCascadesOrIsRejected ==
  [][\A u \in Users :
       DeletesProfile(u)
       => /\ charactersTable' = charactersTable
          /\ IF \E id \in DOMAIN charactersTable : charactersTable[id].author_id = u
               THEN /\ sqlStatus'.result = "ERROR 23503"
                    /\ profiles' = profiles
                    /\ likes' = likes
               ELSE /\ sqlStatus'.result = "DELETE 1"
                    /\ profiles' = profiles \ {u}
                    /\ likes' = {l \in likes : l.user_id # u}
    ]_vars

\* A profile was deleted and its Like went with it: the list still displayed
\* counts a Like the store no longer holds, and the entry is still stored.
C9_Witness ==
  /\ sqlStatus.result = "DELETE 1"
  /\ \E i \in 1..Len(characters) :
       /\ characters[i].id \in DOMAIN charactersTable
       /\ characters[i].likes_count > StoreCount(characters[i].id)
       /\ \A l \in likes : l.user_id # sqlStatus.id

\* C10: a like toggle invoked with no session raises the sign-in notification
\* and does nothing else: no Like is inserted or deleted, nothing is put in
\* flight (no request, no catalog re-fetch), the displayed catalog is unchanged.
C10_LikeWithoutSessionNoOp ==
  [][(likeCalls' # likeCalls /\ session = Null)
     => /\ "Please sign in to like characters" \in toasts'
        /\ likes' = likes
        /\ tasks' = tasks
        /\ characters' = characters
        /\ UNCHANGED <<profiles, charactersTable, storageObjects, session, profile>>
    ]_vars

\* The toggle was invoked with no session.
C10_Witness ==
  /\ session = Null
  /\ \E i \in 1..Len(likeCalls) : likeCalls[i].user_id = Null
  /\ "Please sign in to like characters" \in toasts

\* C11: a download by a viewer without a session is rejected on the client: no
\* download-counter update request of a viewer without a session is ever in
\* flight to the store.
C11_NoUpdateWithoutSession ==
  \A t \in InFlight("handleDownload") : t.session # Null

\* C12: the step in which a confirm starts an upload run (the run is put in
\* flight, about to send its first storage upload) is taken only while an auth
\* session is active, and the run acts as the identity of that session.
C12_UploadActsAsActiveSession ==
  [][\A t \in BagToSet(tasks') :
       (/\ t.kind = "handleUpload"
        /\ t.pc = "image"
        /\ ~t.detached
        /\ CopiesIn(t, tasks') > CopiesIn(t, tasks))
       => authUid # Null /\ t.session = authUid
    ]_vars

\* What run t has stored so far: the image once it is past its first step, the
\* definition file once it is past its second.
StoredBy(t) ==
  (IF t.pc \in {"file", "insert"} THEN {Url("character-images", t.imagePath)} ELSE {})
  \cup (IF t.pc = "insert" THEN {Url("character-files", t.filePath)} ELSE {})

\* C13: the steps of an upload run go image upload, definition-file upload,
\* record insert: a run that has sent a later step has stored the objects of
\* the earlier ones, and an entry is inserted only by a run at its third step.
\* When a step fails the run ends there: nothing else is put in flight, no
\* entry is inserted, the one notification "Failed to upload character" is
\* raised, and everything the run had stored is still in storage.
C13_UploadStepsInOrder ==
  [][/\ \A t \in InFlight("handleUpload") : StoredBy(t) \subseteq storageObjects
     /\ \A t \in InFlight("handleUpload") :
          (Answered(t) /\ BagCardinality(tasks') = BagCardinality(tasks)
             /\ t.pc \in {"image", "file"})
          => /\ [t EXCEPT !.pc = IF t.pc = "image" THEN "file" ELSE "insert",
                           !.filePath = IF t.pc = "image"
                                          THEN Path(t.session, clock, t.characterFile.ext)
                                          ELSE t.filePath] \in BagToSet(tasks')
             /\ charactersTable' = charactersTable
     /\ charactersTable' # charactersTable
          => \E t \in At("handleUpload", "insert") : Answered(t)
     /\ \A t \in InFlight("handleUpload") :
          (Answered(t) /\ BagCardinality(tasks') < BagCardinality(tasks))
          => /\ tasks' = Finish(tasks, t)
             /\ charactersTable' = charactersTable
             /\ storageObjects' = storageObjects
             /\ StoredBy(t) \subseteq storageObjects'
             /\ toasts' = toasts \cup {"Failed to upload character"}
    ]_vars

\* The record insert of a run failed: both its objects are in storage, no
\* entry exists, the failure was notified and nothing is in flight.
C13_Witness ==
  /\ "Failed to upload character" \in toasts
  /\ charactersTable = << >>
  /\ tasks = EmptyBag
  /\ \E o \in storageObjects : o.bucket = "character-files"
  /\ \E o \in storageObjects : o.bucket = "character-images"

\* q, compared case-insensitively, is a substring of name.
Lower(str) == [i \in 1..Len(str) |-> ToLower(str[i])]
IsSubstringCI(q, name) ==
  \E i \in 1..(Len(name) + 1) :
    /\ i + Len(q) - 1 <= Len(name)
    /\ SubSeq(Lower(name), i, i + Len(q) - 1) = Lower(q)

\* rows are exactly the stored entries whose name has q as a case-insensitive
\* substring (all of them for the empty text), each once, newest first.
ReturnsSubstringMatches(rows, q) ==
  /\ {rows[i].id : i \in 1..Len(rows)} =
       {id \in DOMAIN charactersTable : IsSubstringCI(q, charactersTable[id].name)}
  /\ Len(rows) = Cardinality({rows[i].id : i \in 1..Len(rows)})
  /\ q = <<>> => Len(rows) = Cardinality(DOMAIN charactersTable)
  /\ \A i, j \in 1..Len(rows) : i < j => rows[i].created_at >= rows[j].created_at

\* C14: whatever the search text q of a catalog fetch, the rows its catalog
\* query returns are exactly the stored entries of which q is a
\* case-insensitive substring of the name, ordered by creation time
\* descending: the rows a fetch holds when it goes on to its viewer-likes
\* query, and the list a fetch without a session displays unless it failed.
C14_SearchIsSubstringMatch ==
  [][/\ \A t \in BagToSet(tasks') :
          (t.kind = "fetchCharacters" /\ t.pc = "likes"
             /\ CopiesIn(t, tasks') > CopiesIn(t, tasks))
          => ReturnsSubstringMatches(t.charactersData, t.searchQuery)
     /\ \A t \in At("fetchCharacters", "query") :
          (Answered(t) /\ t.session = Null)
          => \/ ReturnsSubstringMatches(characters', t.searchQuery)
             \/ (characters' = characters /\ "Failed to load characters" \in toasts')
    ]_vars

\* C15: a fetch whose catalog query fails raises "Failed to load characters"
\* and leaves the displayed list as it was.  A fetch with a session that ends
\* at its catalog query has failed (on success it goes on to the viewer-likes
\* query); a fetch without a session that ends there has either failed, or
\* displays the rows its query returned; and a step that raises the
\* notification for the first time leaves the list as it was.
C15_FailedFetchKeepsList ==
  [][\A t \in At("fetchCharacters", "query") :
       /\ (Answered(t) /\ t.session # Null /\ BagCardinality(tasks') < BagCardinality(tasks))
          => /\ "Failed to load characters" \in toasts'
             /\ characters' = characters
       /\ (Answered(t) /\ t.session = Null)
          => \/ /\ "Failed to load characters" \in toasts'
                /\ characters' = characters
             \/ /\ toasts' = toasts
                /\ characters' = Processed(SelectCharacters(t.searchQuery), {})
       /\ (Answered(t) /\ "Failed to load characters" \in toasts' \ toasts)
          => characters' = characters
    ]_vars

\* A fetch failed and nothing is in flight: the list of the fetch before it is
\* still displayed, and is not what the current search text selects.
C15_Witness ==
  /\ "Failed to load characters" \in toasts
  /\ tasks = EmptyBag
  /\ characters # <<>>
  /\ Len(characters) # Len(SelectCharacters(searchQuery))

\* C16: a backend call that fails results in a notification and leaves the
\* view as it was.  A handler whose call is answered and which then neither
\* goes on to its next call nor starts the re-fetch of its success path has
\* been answered with a failure: for the download-counter update and for the
\* catalog query of a fetch with a session, that step raises a notification.
C16_EveryFailureNotifies ==
  [][\A t \in BagToSet(tasks) :
       (/\ Answered(t)
        /\ BagCardinality(tasks') < BagCardinality(tasks)
        /\ \/ t.kind = "handleDownload"
           \/ (t.kind = "fetchCharacters" /\ t.pc = "query" /\ t.session # Null))
       => /\ IF t.kind = "handleDownload"
               THEN toasts' # toasts
               ELSE "Failed to load characters" \in toasts'
          /\ UNCHANGED <<session, profile, characters, searchQuery>>
    ]_vars

\* C17: at most one fetchProfile is in flight, and isFetchingProfile is set
\* exactly while one is: every exit path releases it, so it is never left set
\* once none is in flight.
C17_OneProfileFetchInFlight ==
  /\ Copies(tasks, InFlight("fetchProfile")) <= 1
  /\ isFetchingProfile <=> InFlight("fetchProfile") # {}

\* A second auth callback arrived while a fetchProfile was in flight and was
\* turned away by the flag: the one in flight is for another identity than
\* the session's.
C17_Witness ==
  /\ isFetchingProfile
  /\ session # Null
  /\ \E t \in InFlight("fetchProfile") : t.user # session

\* C18: catalog fetches are never cancelled.  A step that changes the search
\* text or the session leaves every fetch in flight in flight, and a fetch
\* that is answered after such a change still displays its rows: the list it
\* sets is the one selected by the search text it was started with.
C18_FetchesNeverCancelled ==
  [][/\ (searchQuery' # searchQuery \/ session' # session)
          => \A t \in InFlight("fetchCharacters") : CopiesIn(t, tasks') >= CopiesIn(t, tasks)
     /\ \A t \in InFlight("fetchCharacters") :
          (Answered(t) /\ characters' # characters)
          => /\ Len(characters') = Len(SelectCharacters(t.searchQuery))
             /\ \A i \in 1..Len(characters') :
                  characters'[i].id = SelectCharacters(t.searchQuery)[i].id
    ]_vars

\* An earlier fetch was answered after the later one: no fetch is in flight,
\* none has failed, the store has not changed, and the list displayed is not
\* the one the current search text selects.
C18_Witness ==
  /\ tasks = EmptyBag
  /\ toasts = {}
  /\ sqlStatus = NoStatement
  /\ Len(characters) # Len(SelectCharacters(searchQuery))

\* C19: the download-counter update is a read-modify-write computed by the
\* client: an update that is applied stores the value the click computed from
\* its view (the viewed counter plus one), whatever the counter holds by then,
\* so an update computed from an outdated view does not add one.
C19_UpdateStoresClientValue ==
  [][\A t \in At("handleDownload", "update") :
       (Answered(t) /\ WentOnToFetch /\ UpdatePermitted(authUid, t.id))
       => charactersTable'[t.id].download_count = t.download_count
    ]_vars

\* Two downloads of c1 were the only two gestures, both issued from the view
\* of the page load (counter 0); both updates succeeded, each starting its
\* re-fetch, and the stored counter is 1.
C19_Witness ==
  /\ gestures = 2
  /\ searchQuery = <<>>
  /\ charactersTable["c1"].download_count = 1
  /\ \A i \in 1..Len(characters) : characters[i].download_count = 0
  /\ InFlight("handleDownload") = {}
  /\ CopiesIn(FetchTask(<<>>, session), tasks) = 2
  /\ BagCardinality(tasks) = 2

\* C20 as stated: whenever no session is active and no catalog fetch is in
\* flight (here: in runs where no call failed), every displayed entry has
\* is_liked = false.
C20_NoSessionNothingLiked ==
  (session = Null /\ InFlight("fetchCharacters") = {} /\ toasts = {})
  => \A i \in 1..Len(characters) : ~characters[i].is_liked

\* C20 as amended: the is_liked flags a catalog fetch displays are those of
\* the session the fetch was started with: all false for a fetch started
\* without a session; for a fetch started with the session of u, true exactly
\* for the entries that had a Like by u in the store when the fetch's
\* viewer-likes query was answered, or all false when that query failed.
C20_IsLikedAsOfFetch ==
  [][characters' # characters
     => \/ \E t \in At("fetchCharacters", "query") :
             /\ Answered(t)
             /\ t.session = Null
             /\ \A i \in 1..Len(characters') : ~characters'[i].is_liked
        \/ \E t \in At("fetchCharacters", "likes") :
             /\ Answered(t)
             /\ t.session # Null
             /\ \/ \A i \in 1..Len(characters') :
                     characters'[i].is_liked = (LikeRow(characters'[i].id, t.session) \in likes)
                \/ \A i \in 1..Len(characters') : ~characters'[i].is_liked
    ]_vars

\* A fetch started with the session of one identity displayed its flags after
\* the session had gone: an entry is shown as liked to a viewer without a
\* session, with no fetch in flight.
C20_Witness ==
  /\ session = Null
  /\ tasks = EmptyBag
  /\ toasts = {}
  /\ likeCalls = <<>>
  /\ \E i \in 1..Len(characters) : characters[i].is_liked
====
